---- MODULE Spec2Model ----
(***************************************************************************)
(* Dialect-abstraction layer of sequelize: the abstract dialect            *)
(* (capability matrix, data-type override registry, literal escaping) and  *)
(* the MySQL data types.                                                   *)
(*                                                                         *)
(* Strings are sequences of one-character strings, buffers are sequences   *)
(* of bytes (0..255), objects that have an identity (Map instances, the    *)
(* static capability records) live in heaps indexed by reference.          *)
(***************************************************************************)
EXTENDS Integers, Sequences, FiniteSets, TLC

VARIABLES
  DataTypes,              \* AbstractDialect#DataTypes: the declared type classes, in Object.values order
  dataTypeOverridesCache, \* AbstractDialect##dataTypeOverridesCache, per dialect instance (0 = undefined)
  maps,                   \* heap of the Map objects built by dataTypeOverrides: reference -> entries
  observed,               \* what each caller last got from dataTypeOverrides on each instance
  staticSupports,         \* the own static property `supports` of each dialect class (0 = not declared)
  matrices,               \* heap of the capability records: reference -> record
  supportsSeen,           \* every (reference, value) a read of `supports` has returned so far
  ret,                    \* the outcome of the last dialect call
  rows,                   \* BOOLEAN column of the test table: the stored TINYINT(1) values
  bret,                   \* the outcome of the last BOOLEAN data-type call
  numberRow,              \* the row of the numeric test table: its column type, the stored field, the value written
  numberRet,              \* the outcome of the last call on a numeric attribute
  timezone,               \* options.timezone of the Sequelize instance
  dateRow,                \* the row of the DATE test table: the stored DATETIME text, the instant written
  dateRet,                \* the outcome of the last DATE data-type call
  geometry,               \* the options of the GEOMETRY data type last constructed
  geometryRet,            \* the outcome of the last GEOMETRY call
  enum,                   \* the options of the ENUM data type last constructed
  enumRet,                \* the outcome of the last ENUM call
  collectors,             \* the BindCollector each query build holds, if any
  bindRet,                \* the outcome of the last BindCollector call
  models,                 \* the models defined on the Sequelize instance: attribute type, whether synced
  defineRet               \* the outcome of the last define or sync

dialectVars == <<DataTypes, dataTypeOverridesCache, maps, observed, staticSupports,
                 matrices, supportsSeen, ret>>
booleanVars == <<rows, bret>>
numberVars == <<numberRow, numberRet>>
dateVars == <<timezone, dateRow, dateRet>>
geometryVars == <<geometry, geometryRet>>
enumVars == <<enum, enumRet>>
bindVars == <<collectors, bindRet>>
modelVars == <<models, defineRet>>
typeVars == <<numberVars, dateVars, geometryVars, enumVars, bindVars, modelVars>>
vars == <<dialectVars, booleanVars, typeVars>>

----------------------------------------------------------------------------
(* Bounds of the model *)

MaxTypes == 3
MaxStrLen == 4
MaxBufLen == 2
MaxRows == 3
MaxWkbLen == 5
MaxMembers == 3
MaxCalls == 3
MaxModels == 2

----------------------------------------------------------------------------
(* Small helpers *)

RECURSIVE SeqsUpTo(_, _)
SeqsUpTo(S, n) ==
  IF n = 0 THEN {<<>>}
  ELSE LET shorter == SeqsUpTo(S, n - 1)
       IN  shorter \cup {Append(s, x) : s \in {t \in shorter : Len(t) = n - 1}, x \in S}

----------------------------------------------------------------------------
(* The declared type classes of a dialect *)

undefined == "undefined"

\* The classes src/dialects/mysql/data-types.ts exports; the i-th declared class
\* of the model carries the i-th name.
TypeNames == <<"DECIMAL", "DOUBLE", "BIGINT", "BOOLEAN", "DATE", "DATEONLY", "UUID",
               "GEOMETRY", "ENUM">>

\* Base classes a marker can name (by the marker class's .name).
BaseTypes == {"BOOLEAN", "DATE"}

\* A declared type class: its .name and its static kIsDataTypeOverrideOf.
TypeClass(i, marker) == [name |-> TypeNames[i], kIsDataTypeOverrideOf |-> marker]

DeclaredTypeSets ==
  {[i \in 1..Len(ms) |-> TypeClass(i, ms[i])] :
     ms \in SeqsUpTo(BaseTypes \cup {undefined}, MaxTypes)}

Instances == {"d1", "d2"}
Callers == {"c1", "c2"}

\* abstract readonly name: Dialect
name(d) == "mysql"

----------------------------------------------------------------------------
(* AbstractDialect.dataTypeOverrides: the data-type override registry *)

\* A Map object is the sequence of its entries in insertion order.
EmptyMap == <<>>

MapHas(m, key) == \E i \in 1..Len(m) : m[i].key = key

MapSet(m, key, value) ==
  IF MapHas(m, key)
  THEN [i \in 1..Len(m) |-> IF m[i].key = key THEN [key |-> key, value |-> value] ELSE m[i]]
  ELSE Append(m, [key |-> key, value |-> value])

NoError == [class |-> "none", message |-> <<>>]

\* new Error(`Dialect ${this.name} declares a DataType ${dataType.name}, but does not
\* specify which base DataType it is the dialect-specific implementation of.`)
MissingMarkerError(d, dataType) ==
  [class |-> "Error",
   message |-> <<"Dialect ", name(d), " declares a DataType ", dataType.name,
                 ", but does not specify which base DataType it is the dialect-specific implementation of.">>]

\* new Error(`Dialect ${this.name} declares more than one implementation for DataType
\* ${replacedDataType.name}.`)
DuplicateOverrideError(d, replacedDataType) ==
  [class |-> "Error",
   message |-> <<"Dialect ", name(d), " declares more than one implementation for DataType ",
                 replacedDataType, ".">>]

Returned(overrides) == [threw |-> FALSE, error |-> NoError, entries |-> overrides]
Thrown(error) == [threw |-> TRUE, error |-> error, entries |-> EmptyMap]

MarkerNeverMissing(replacedDataType) == FALSE

\* if (!replacedDataType)
MarkerMissing(replacedDataType) == replacedDataType = undefined

OverridesNeverHas(overrides, replacedDataType) == FALSE

\* if (overrides.has(replacedDataType))
OverridesHas(overrides, replacedDataType) == MapHas(overrides, replacedDataType)

\* The loop giving up at an offending class and returning the map built so far
RECURSIVE resolveOverridesPartial(_, _, _, _)
resolveOverridesPartial(d, dataTypes, i, overrides) ==
  IF i > Len(dataTypes) THEN Returned(overrides)
  ELSE LET dataType == dataTypes[i]
           replacedDataType == dataType.kIsDataTypeOverrideOf
       IN  IF MarkerMissing(replacedDataType) \/ OverridesHas(overrides, replacedDataType)
           THEN Returned(overrides)
           ELSE resolveOverridesPartial(d, dataTypes, i + 1,
                                        MapSet(overrides, replacedDataType, dataType))

\* The for loop over Object.values(dataTypes), from its i-th element on.
RECURSIVE resolveOverrides(_, _, _, _)
resolveOverrides(d, dataTypes, i, overrides) ==
  IF i > Len(dataTypes) THEN Returned(overrides)
  ELSE LET dataType == dataTypes[i]
           replacedDataType == dataType.kIsDataTypeOverrideOf
       IN  IF MarkerMissing(replacedDataType)
           THEN Thrown(MissingMarkerError(d, dataType))
           ELSE IF OverridesHas(overrides, replacedDataType)
           THEN Thrown(DuplicateOverrideError(d, replacedDataType))
           ELSE resolveOverrides(d, dataTypes, i + 1,
                                 MapSet(overrides, replacedDataType, dataType))

NoRef == 0

CacheNeverHit(d) == FALSE

\* if (this.#dataTypeOverridesCache)
CacheHit(d) == dataTypeOverridesCache[d] # NoRef

CacheNotStored(d, ref) == dataTypeOverridesCache

\* this.#dataTypeOverridesCache = overrides
StoreCache(d, ref) == [dataTypeOverridesCache EXCEPT ![d] = ref]

NotObserved == [kind |-> "none", ref |-> NoRef, error |-> NoError]
ObservedMap(ref) == [kind |-> "map", ref |-> ref, error |-> NoError]
ObservedThrow(error) == [kind |-> "throw", ref |-> NoRef, error |-> error]

OverridesRet(d, c, got, readDataTypes) ==
  [op |-> "dataTypeOverrides", inst |-> d, caller |-> c, threw |-> got.kind = "throw",
   error |-> got.error, ref |-> got.ref, readDataTypes |-> readDataTypes]

\* Caller c reads d.dataTypeOverrides. The getter is synchronous, so one read runs
\* to completion before any other code of the process runs.
dataTypeOverrides(d, c) ==
  /\ IF CacheHit(d)
     THEN /\ observed' = [observed EXCEPT ![d][c] = ObservedMap(dataTypeOverridesCache[d])]
          /\ ret' = OverridesRet(d, c, ObservedMap(dataTypeOverridesCache[d]), FALSE)
          /\ UNCHANGED <<maps, dataTypeOverridesCache>>
     ELSE LET dataTypes == DataTypes
              outcome == resolveOverrides(d, dataTypes, 1, EmptyMap)
              ref == Len(maps) + 1
          IN  IF outcome.threw
              THEN /\ observed' = [observed EXCEPT ![d][c] = ObservedThrow(outcome.error)]
                   /\ ret' = OverridesRet(d, c, ObservedThrow(outcome.error), TRUE)
                   /\ UNCHANGED <<maps, dataTypeOverridesCache>>
              ELSE /\ maps' = Append(maps, outcome.entries)
                   /\ dataTypeOverridesCache' = StoreCache(d, ref)
                   /\ observed' = [observed EXCEPT ![d][c] = ObservedMap(ref)]
                   /\ ret' = OverridesRet(d, c, ObservedMap(ref), TRUE)
  /\ UNCHANGED <<DataTypes, staticSupports, matrices, supportsSeen, booleanVars, typeVars>>

----------------------------------------------------------------------------
(* The capability matrix: DialectSupports and AbstractDialect.supports *)

\* static readonly supports: DialectSupports = { ... }
DefaultSupports ==
  [lock |-> FALSE, lockOf |-> FALSE, lockKey |-> FALSE, lockOuterJoinFailure |-> FALSE,
   skipLocked |-> FALSE, finalTable |-> FALSE,
   returnValues |-> FALSE,
   autoIncrement |-> [identityInsert |-> FALSE, defaultValue |-> TRUE, update |-> TRUE],
   bulkDefault |-> FALSE, schemas |-> FALSE, transactions |-> TRUE,
   settingIsolationLevelDuringTransaction |-> TRUE,
   transactionOptions |-> [type |-> FALSE],
   migrations |-> TRUE, upserts |-> TRUE,
   inserts |-> [ignoreDuplicates |-> "", updateOnDuplicate |-> FALSE,
                onConflictDoNothing |-> "", conflictFields |-> FALSE],
   constraints |-> [restrict |-> TRUE, addConstraint |-> TRUE, dropConstraint |-> TRUE,
                    unique |-> TRUE, default |-> FALSE, check |-> TRUE, foreignKey |-> TRUE,
                    primaryKey |-> TRUE, onUpdate |-> TRUE],
   index |-> [collate |-> TRUE, length |-> FALSE, parser |-> FALSE, concurrently |-> FALSE,
              type |-> FALSE, using |-> TRUE, functionBased |-> FALSE, operator |-> FALSE,
              where |-> FALSE],
   groupedLimit |-> TRUE, indexViaAlter |-> FALSE,
   JSON |-> FALSE, JSONB |-> FALSE, ARRAY |-> FALSE, RANGE |-> FALSE, GEOMETRY |-> FALSE,
   REGEXP |-> FALSE, IREGEXP |-> FALSE, GEOGRAPHY |-> FALSE, HSTORE |-> FALSE,
   TSVECTOR |-> FALSE, deferrableConstraints |-> FALSE, tmpTableTrigger |-> FALSE,
   indexHints |-> FALSE, searchPath |-> FALSE]
  @@ ("DEFAULT VALUES" :> FALSE) @@ ("VALUES ()" :> FALSE) @@ ("LIMIT ON UPDATE" :> FALSE)
  @@ ("ON DUPLICATE KEY" :> TRUE) @@ ("ORDER NULLS" :> FALSE) @@ ("UNION ALL" :> TRUE)
  @@ ("RIGHT JOIN" :> TRUE) @@ ("DEFAULT" :> TRUE) @@ ("UNION" :> TRUE)
  @@ ("EXCEPTION" :> FALSE)

\* The non-optional top-level keys of the type DialectSupports.
SchemaKeys ==
  {"DEFAULT", "DEFAULT VALUES", "VALUES ()", "LIMIT ON UPDATE", "ON DUPLICATE KEY",
   "ORDER NULLS", "UNION", "UNION ALL", "RIGHT JOIN", "EXCEPTION",
   "lock", "lockOf", "lockKey", "lockOuterJoinFailure", "skipLocked", "finalTable",
   "returnValues", "autoIncrement", "bulkDefault", "schemas", "transactions",
   "settingIsolationLevelDuringTransaction", "transactionOptions", "migrations", "upserts",
   "inserts", "constraints", "index", "groupedLimit", "indexViaAlter",
   "JSON", "JSONB", "ARRAY", "RANGE", "GEOMETRY", "GEOGRAPHY", "REGEXP", "IREGEXP",
   "HSTORE", "TSVECTOR", "deferrableConstraints", "tmpTableTrigger", "indexHints",
   "searchPath"}

\* The keys of the nested records of the type DialectSupports.
NestedSchemaKeys ==
  [autoIncrement |-> {"identityInsert", "defaultValue", "update"},
   transactionOptions |-> {"type"},
   inserts |-> {"ignoreDuplicates", "updateOnDuplicate", "onConflictDoNothing",
                "conflictFields"},
   constraints |-> {"restrict", "addConstraint", "dropConstraint", "unique", "default",
                    "check", "foreignKey", "primaryKey", "onUpdate"},
   index |-> {"collate", "length", "parser", "concurrently", "type", "using",
              "functionBased", "operator", "where"}]

\* if (dialect.supports.dataTypes.CHAR.BINARY): the lookup the data-type tests branch on.
TestLookupPath == <<"dataTypes", "CHAR", "BINARY">>

\* A concrete dialect's own matrix: the defaults with the dialect's fields overridden.
MysqlSupports ==
  [k \in DOMAIN DefaultSupports |->
     IF k \in {"VALUES ()", "LIMIT ON UPDATE", "lock", "GEOMETRY", "JSON", "REGEXP",
               "indexHints"}
     THEN TRUE ELSE DefaultSupports[k]]
  @@ ("forShare" :> "LOCK IN SHARE MODE")

DialectClasses == {"AbstractDialect", "MysqlDialect"}

\* this.constructor, for every instance of the model
constructorOf(d) == "MysqlDialect"

\* Dialect.supports: a static property a class does not declare is inherited.
StaticSupportsOf(Dialect) ==
  IF staticSupports[Dialect] # NoRef THEN staticSupports[Dialect]
  ELSE staticSupports["AbstractDialect"]

\* get supports(): const Dialect = this.constructor; return Dialect.supports;
supportsGetter(d) == StaticSupportsOf(constructorOf(d))

\* return { ...Dialect.supports }: every read hands out a copy of the record.
supportsCopy(d) ==
  LET ref == Len(matrices) + 1
      value == matrices[supportsGetter(d)]
  IN  /\ matrices' = Append(matrices, value)
      /\ ret' = [op |-> "supports", inst |-> d, ref |-> ref, value |-> value]
      /\ supportsSeen' = supportsSeen \cup {[ref |-> ref, value |-> value]}
      /\ UNCHANGED <<DataTypes, dataTypeOverridesCache, maps, observed, staticSupports,
                     booleanVars, typeVars>>

\* A read of d.supports
supports(d) ==
  LET ref == supportsGetter(d)
  IN  /\ ret' = [op |-> "supports", inst |-> d, ref |-> ref, value |-> matrices[ref]]
      /\ supportsSeen' = supportsSeen \cup {[ref |-> ref, value |-> matrices[ref]]}
      /\ UNCHANGED <<DataTypes, dataTypeOverridesCache, maps, observed, staticSupports,
                     matrices, booleanVars, typeVars>>

----------------------------------------------------------------------------
(* AbstractDialect.escapeString and AbstractDialect.escapeBuffer *)

Quote == "'"

\* The characters of the modelled string values: the quote and two others.
Chars == {Quote, "b", ";"}

StringValues == SeqsUpTo(Chars, MaxStrLen)

\* value.replace(/'/, '\'\''): without the g flag only the first match is replaced.
RECURSIVE replaceFirstQuote(_)
replaceFirstQuote(value) ==
  IF value = <<>> THEN <<>>
  ELSE IF Head(value) = Quote THEN <<Quote, Quote>> \o Tail(value)
  ELSE <<Head(value)>> \o replaceFirstQuote(Tail(value))

\* value.replace(/'/g, '\'\'')
RECURSIVE replaceAllQuotes(_)
replaceAllQuotes(value) ==
  IF value = <<>> THEN <<>>
  ELSE (IF Head(value) = Quote THEN <<Quote, Quote>> ELSE <<Head(value)>>)
       \o replaceAllQuotes(Tail(value))

\* escapeString(value): return `'${value}'` of the replaced value
escapeString(value) == <<Quote>> \o replaceAllQuotes(value) \o <<Quote>>

HexDigits == <<"0", "1", "2", "3", "4", "5", "6", "7", "8", "9", "a", "b", "c", "d", "e", "f">>

\* The bytes of the modelled buffers: both nibbles zero, a leading-zero byte either
\* side of a letter digit, letter digits only, and the largest byte.
Bytes == {0, 9, 10, 171, 255}

BufferValues == SeqsUpTo(Bytes, MaxBufLen)

\* byte.toString(16): no leading zero for a byte below 16.
byteToHexUnpadded(byte) ==
  IF byte < 16 THEN <<HexDigits[byte + 1]>>
  ELSE <<HexDigits[(byte \div 16) + 1], HexDigits[(byte % 16) + 1]>>

\* One byte of buffer.toString('hex'): two lowercase digits, high nibble first.
byteToHex(byte) == <<HexDigits[(byte \div 16) + 1], HexDigits[(byte % 16) + 1]>>

\* buffer.toString('hex')
RECURSIVE toHexString(_)
toHexString(buffer) ==
  IF buffer = <<>> THEN <<>>
  ELSE byteToHex(Head(buffer)) \o toHexString(Tail(buffer))

\* escapeBuffer(buffer): return `X'${hex}'`
escapeBuffer(buffer) == <<"X", Quote>> \o toHexString(buffer) \o <<Quote>>

dialectFrame ==
  UNCHANGED <<DataTypes, dataTypeOverridesCache, maps, observed, staticSupports, matrices,
              supportsSeen, booleanVars, typeVars>>

\* The values the dialect specification passes to the escape methods between its
\* other operations; EscapeSpec passes every value within the bounds.
SampleStrings == {<<>>, <<"b", Quote>>}
SampleBuffers == {<<>>, <<171, 9>>}

\* A call of d.escapeString(value), value among values
EscapeStringCall(d, values) ==
  \E value \in values :
    /\ ret' = [op |-> "escapeString", inst |-> d, arg |-> value, out |-> escapeString(value)]
    /\ dialectFrame

\* A call of d.escapeBuffer(buffer), buffer among buffers
EscapeBufferCall(d, buffers) ==
  \E buffer \in buffers :
    /\ ret' = [op |-> "escapeBuffer", inst |-> d, arg |-> buffer, out |-> escapeBuffer(buffer)]
    /\ dialectFrame

\* abstract createBindCollector(): BindCollector. Every call hands out a new collector
\* that has collected nothing; the dialect keeps no reference to it.
createBindCollector(d) ==
  /\ ret' = [op |-> "createBindCollector", inst |-> d, order |-> <<>>]
  /\ dialectFrame

----------------------------------------------------------------------------
(* The dialect specification *)

NoCall == [op |-> "none"]

InitDialect ==
  /\ DataTypes \in DeclaredTypeSets
  /\ dataTypeOverridesCache = [d \in Instances |-> NoRef]
  /\ maps = <<>>
  /\ observed = [d \in Instances |-> [c \in Callers |-> NotObserved]]
  /\ \E declared \in BOOLEAN :
       /\ staticSupports = [k \in DialectClasses |->
                              IF k = "AbstractDialect" THEN 1
                              ELSE IF declared THEN 2 ELSE NoRef]
       /\ matrices = IF declared THEN <<DefaultSupports, MysqlSupports>>
                     ELSE <<DefaultSupports>>
  /\ supportsSeen = {}
  /\ ret = NoCall

BooleanIdle ==
  /\ rows = <<>>
  /\ bret = NoCall

NoRow == [type |-> "none"]

NoInstance == [class |-> "none"]

\* the query builds that can be under way at once
Builds == {"q1", "q2"}

\* a query build that has not created its collector
NoCollector == [style |-> "none", order |-> <<>>, calls |-> <<>>]

\* no data type constructed and no attribute written yet
TypeIdle ==
  /\ numberRow = NoRow /\ numberRet = NoCall
  /\ timezone = "+00:00" /\ dateRow = NoRow /\ dateRet = NoCall
  /\ geometry = NoInstance /\ geometryRet = NoCall
  /\ enum = NoInstance /\ enumRet = NoCall
  /\ collectors = [b \in Builds |-> NoCollector] /\ bindRet = NoCall
  /\ models = <<>> /\ defineRet = NoCall

Init == InitDialect /\ BooleanIdle /\ TypeIdle

Next ==
  \E d \in Instances :
    \/ \E c \in Callers : dataTypeOverrides(d, c)
    \/ supports(d)
    \/ EscapeStringCall(d, SampleStrings)
    \/ EscapeBufferCall(d, SampleBuffers)
    \/ createBindCollector(d)

Spec == Init /\ [][Next]_vars

----------------------------------------------------------------------------
(* The escape methods on every value within the bounds, the dialect otherwise idle *)

DialectIdle ==
  /\ DataTypes = <<>>
  /\ dataTypeOverridesCache = [d \in Instances |-> NoRef]
  /\ maps = <<>>
  /\ observed = [d \in Instances |-> [c \in Callers |-> NotObserved]]
  /\ staticSupports = [k \in DialectClasses |-> IF k = "AbstractDialect" THEN 1 ELSE NoRef]
  /\ matrices = <<DefaultSupports>>
  /\ supportsSeen = {}
  /\ ret = NoCall

EscapeInit == DialectIdle /\ BooleanIdle /\ TypeIdle

EscapeNext ==
  \E d \in Instances :
    \/ EscapeStringCall(d, StringValues)
    \/ EscapeBufferCall(d, BufferValues)

EscapeSpec == EscapeInit /\ [][EscapeNext]_vars

----------------------------------------------------------------------------
(* Claims about the override registry *)

Markerless(i) == DataTypes[i].kIsDataTypeOverrideOf = undefined

\* j-th declared class claims a base type that an earlier declared class claims too
Clashes(j) ==
  /\ ~Markerless(j)
  /\ \E i \in 1..(j - 1) :
       DataTypes[i].kIsDataTypeOverrideOf = DataTypes[j].kIsDataTypeOverrideOf

HasMarkerless == \E i \in 1..Len(DataTypes) : Markerless(i)
HasClash == \E j \in 1..Len(DataTypes) : Clashes(j)

\* The first declared class that is markerless or repeats an earlier claim
FirstOffender ==
  CHOOSE j \in 1..Len(DataTypes) :
    /\ Markerless(j) \/ Clashes(j)
    /\ \A i \in 1..(j - 1) : ~(Markerless(i) \/ Clashes(i))

OverridesRead == ret.op = "dataTypeOverrides"

\* The two failures the specification calls ConfigurationError: the code raises both
\* as plain Error objects, told apart by their message.
SaysMissingMarker(error) ==
  /\ Len(error.message) = 5
  /\ error.message[3] = " declares a DataType "
SaysDuplicate(error) ==
  /\ Len(error.message) = 5
  /\ error.message[3] = " declares more than one implementation for DataType "
IsConfigurationError(error) == SaysMissingMarker(error) \/ SaysDuplicate(error)
NamesDialect(error, d) ==
  /\ Len(error.message) = 5
  /\ error.message[1] = "Dialect "
  /\ error.message[2] = name(d)

NoMapReturned ==
  /\ ret.threw
  /\ ret.ref = NoRef
  /\ dataTypeOverridesCache[ret.inst] = NoRef
  /\ observed[ret.inst][ret.caller].kind = "throw"

\* C1 as stated: a read of dataTypeOverrides on a dialect that declares a markerless
\* type class fails with a configuration error that names the dialect and a
\* markerless type as the offending one, and no map is returned.
C1_AsStated ==
  (OverridesRead /\ HasMarkerless) =>
     /\ NoMapReturned
     /\ IsConfigurationError(ret.error)
     /\ NamesDialect(ret.error, ret.inst)
     /\ SaysMissingMarker(ret.error)
     /\ \E i \in 1..Len(DataTypes) : Markerless(i) /\ ret.error.message[4] = DataTypes[i].name

\* C1 amended: a read of dataTypeOverrides on a dialect that declares a markerless
\* type class fails with an Error that names the dialect, and no map is returned or
\* cached; the error names the first markerless type in declaration order unless a
\* class declared before it repeats an earlier class's base type, and then it is the
\* duplicate-implementation error naming that base type.
C1_MarkerlessFails ==
  (OverridesRead /\ HasMarkerless) =>
     /\ NoMapReturned
     /\ ret.error.class = "Error"
     /\ NamesDialect(ret.error, ret.inst)
     /\ Markerless(FirstOffender) =>
          /\ SaysMissingMarker(ret.error)
          /\ ret.error.message[4] = DataTypes[FirstOffender].name
     /\ Clashes(FirstOffender) =>
          /\ SaysDuplicate(ret.error)
          /\ ret.error.message[4] = DataTypes[FirstOffender].kIsDataTypeOverrideOf

\* A read failed on a markerless class that is declared after a class with a marker.
C1_Witness ==
  /\ OverridesRead
  /\ ret.threw
  /\ SaysMissingMarker(ret.error)
  /\ Len(DataTypes) >= 2
  /\ ~Markerless(1)
  /\ Markerless(FirstOffender)

\* C2 as stated: a read of dataTypeOverrides on a dialect in which two declared
\* classes carry the same marker fails with a configuration error that identifies the
\* conflict: the dialect and a doubly-claimed base type.
C2_AsStated ==
  (OverridesRead /\ HasClash) =>
     /\ NoMapReturned
     /\ IsConfigurationError(ret.error)
     /\ NamesDialect(ret.error, ret.inst)
     /\ SaysDuplicate(ret.error)
     /\ \E j \in 1..Len(DataTypes) :
          Clashes(j) /\ ret.error.message[4] = DataTypes[j].kIsDataTypeOverrideOf

\* DataTypes with the classes at i and j declared in the other order
Swapped(i, j) ==
  [k \in 1..Len(DataTypes) |->
     IF k = i THEN DataTypes[j] ELSE IF k = j THEN DataTypes[i] ELSE DataTypes[k]]

\* C2 amended: a read of dataTypeOverrides on a dialect in which two declared classes
\* carry the same marker fails with an Error that names the dialect, and the same
\* Error whichever of the two classes is declared first; it is the duplicate error
\* naming the doubly-claimed base type unless a markerless class is declared before
\* the second of the two, and then it is the missing-marker error naming that class.
C2_DuplicateFails ==
  (OverridesRead /\ HasClash) =>
     /\ NoMapReturned
     /\ ret.error.class = "Error"
     /\ NamesDialect(ret.error, ret.inst)
     /\ Clashes(FirstOffender) =>
          /\ SaysDuplicate(ret.error)
          /\ ret.error.message[4] = DataTypes[FirstOffender].kIsDataTypeOverrideOf
     /\ Markerless(FirstOffender) =>
          /\ SaysMissingMarker(ret.error)
          /\ ret.error.message[4] = DataTypes[FirstOffender].name
     /\ \A i, j \in 1..Len(DataTypes) :
          (i < j /\ ~Markerless(j)
             /\ DataTypes[i].kIsDataTypeOverrideOf = DataTypes[j].kIsDataTypeOverrideOf) =>
            LET swapped == resolveOverrides(ret.inst, Swapped(i, j), 1, EmptyMap)
            IN  swapped.threw /\ swapped.error = ret.error

\* A read failed with the duplicate error, the two claimants not declared side by side.
C2_Witness ==
  /\ OverridesRead
  /\ ret.threw
  /\ SaysDuplicate(ret.error)
  /\ Clashes(FirstOffender)
  /\ FirstOffender >= 3
  /\ DataTypes[1].kIsDataTypeOverrideOf = DataTypes[FirstOffender].kIsDataTypeOverrideOf

\* C3: once an instance has cached its override map, every later read on that
\* instance returns that same Map object with its entries unchanged, does not read
\* DataTypes again, builds no Map and changes nothing else of the dialect.
C3_Memoized ==
  [][\A d \in Instances :
       dataTypeOverridesCache[d] # NoRef =>
         /\ dataTypeOverridesCache'[d] = dataTypeOverridesCache[d]
         /\ Len(maps') >= dataTypeOverridesCache[d]
         /\ maps'[dataTypeOverridesCache[d]] = maps[dataTypeOverridesCache[d]]
         /\ \A c \in Callers :
              \/ observed'[d][c] = ObservedMap(dataTypeOverridesCache[d])
              \/ observed'[d][c] = observed[d][c]
         /\ (ret'.op = "dataTypeOverrides" /\ ret'.inst = d) =>
              /\ ~ret'.threw
              /\ ret'.ref = dataTypeOverridesCache[d]
              /\ ~ret'.readDataTypes
              /\ maps' = maps
              /\ UNCHANGED <<DataTypes, dataTypeOverridesCache, staticSupports, matrices,
                             supportsSeen>>
    ]_vars

\* A read was served from the cache.
C3_Witness ==
  /\ OverridesRead
  /\ ~ret.threw
  /\ ~ret.readDataTypes
  /\ dataTypeOverridesCache[ret.inst] = ret.ref
  /\ Len(maps[ret.ref]) >= 2

\* C4: reads of dataTypeOverrides by several callers on one instance, in any
\* interleaving, build one Map for the instance: every caller that has got a map has
\* got the cached one.
C4_SingleInitialization ==
  /\ Cardinality({d \in Instances : dataTypeOverridesCache[d] # NoRef}) = Len(maps)
  /\ \A d \in Instances : \A c \in Callers :
       observed[d][c].kind = "map" =>
         /\ observed[d][c].ref = dataTypeOverridesCache[d]
         /\ \A c2 \in Callers :
              observed[d][c2].kind = "map" => observed[d][c2].ref = observed[d][c].ref

\* Every caller has read the map of one instance.
C4_Witness ==
  \E d \in Instances :
    /\ \A c \in Callers : observed[d][c].kind = "map"
    /\ Len(maps[dataTypeOverridesCache[d]]) >= 1

\* C25: a failed resolution caches nothing. On a dialect whose declared types
\* hold a markerless class or a repeated base type no instance ever has a cache
\* and no map, partial or not, is ever built; every read of dataTypeOverrides
\* runs the resolution over DataTypes again and throws, and all the reads of one
\* instance throw the same error.
C25_FailureCachesNothing ==
  /\ (OverridesRead /\ ret.threw) =>
       /\ dataTypeOverridesCache[ret.inst] = NoRef
       /\ ret.readDataTypes
       /\ HasMarkerless \/ HasClash
  /\ (HasMarkerless \/ HasClash) =>
       /\ \A d \in Instances : dataTypeOverridesCache[d] = NoRef
       /\ maps = <<>>
       /\ OverridesRead => (ret.threw /\ ret.readDataTypes /\ ret.ref = NoRef)
       /\ \A d \in Instances : \A c1, c2 \in Callers :
            /\ observed[d][c1].kind # "map"
            /\ (observed[d][c1].kind = "throw" /\ observed[d][c2].kind = "throw")
                 => observed[d][c1].error = observed[d][c2].error
            /\ (OverridesRead /\ ret.inst = d /\ observed[d][c1].kind = "throw")
                 => ret.error = observed[d][c1].error

\* A second caller read the overrides of an instance on which a first caller's
\* read had failed, and failed as well.
C25_Witness ==
  /\ OverridesRead
  /\ ret.threw
  /\ ret.caller = "c2"
  /\ observed[ret.inst]["c1"].kind = "throw"
  /\ observed[ret.inst]["c2"].kind = "throw"
  /\ Len(DataTypes) >= 2
  /\ FirstOffender >= 2

\* C26: every map dataTypeOverrides has built is a one-to-one correspondence with
\* the declared type classes: as many entries as declared classes, every declared
\* class the value of exactly one entry, no key twice, and every key the base type
\* its value's marker names.
C26_OneToOne ==
  \A ref \in 1..Len(maps) :
    LET m == maps[ref] IN
    /\ Len(m) = Len(DataTypes)
    /\ \A i \in 1..Len(DataTypes) :
         Cardinality({j \in 1..Len(m) : m[j].value = DataTypes[i]}) = 1
    /\ \A j, k \in 1..Len(m) : m[j].key = m[k].key => j = k
    /\ \A j \in 1..Len(m) : m[j].key = m[j].value.kIsDataTypeOverrideOf

C26_Witness ==
  /\ OverridesRead
  /\ ~ret.threw
  /\ ret.ref # NoRef
  /\ Len(maps[ret.ref]) = 2
  /\ maps[ret.ref][1].key # maps[ret.ref][2].key
  /\ maps[ret.ref][2].value = DataTypes[2]

----------------------------------------------------------------------------
(* Claims about the escape methods *)

QuotesIn(v, n) == Cardinality({i \in 1..n : v[i] = Quote})

\* Where a standard SQL lexer that opened a string literal at s[1] closes it, reading
\* from position k: a quote followed by a quote is one character of the literal, any
\* other quote closes it; 0 when the literal is not closed.
RECURSIVE LiteralEnd(_, _)
LiteralEnd(s, k) ==
  IF k > Len(s) THEN 0
  ELSE IF s[k] # Quote THEN LiteralEnd(s, k + 1)
  ELSE IF k < Len(s) /\ s[k + 1] = Quote THEN LiteralEnd(s, k + 2)
  ELSE k

\* The characters the lexer reads as the literal's value, from position k on.
RECURSIVE LiteralValue(_, _)
LiteralValue(s, k) ==
  IF k > Len(s) THEN <<>>
  ELSE IF s[k] # Quote THEN <<s[k]>> \o LiteralValue(s, k + 1)
  ELSE IF k < Len(s) /\ s[k + 1] = Quote THEN <<Quote>> \o LiteralValue(s, k + 2)
  ELSE <<>>

\* C5: escapeString(value) is a quote, then value with every quote doubled and every
\* other character unchanged and in place, then a quote; a SQL lexer reads the result
\* as one literal that ends at its last character and whose value is value.
C5_EscapeString ==
  ret.op = "escapeString" =>
    LET v == ret.arg
        s == ret.out
    IN  /\ Len(s) = Len(v) + QuotesIn(v, Len(v)) + 2
        /\ s[1] = Quote
        /\ s[Len(s)] = Quote
        /\ \A i \in 1..Len(v) :
             LET p == 1 + i + QuotesIn(v, i - 1)
             IN  /\ s[p] = v[i]
                 /\ v[i] = Quote => s[p + 1] = Quote
        /\ LiteralEnd(s, 2) = Len(s)
        /\ LiteralValue(s, 2) = v

\* A value shaped like "Bob'; drop table users --" was escaped: a quote inside it,
\* followed by a statement separator.
C5_Witness ==
  /\ ret.op = "escapeString"
  /\ \E i \in 1..(Len(ret.arg) - 2) :
       ret.arg[i] = "b" /\ ret.arg[i + 1] = Quote /\ ret.arg[i + 2] = ";"

LowerHexValue ==
  ("0" :> 0) @@ ("1" :> 1) @@ ("2" :> 2) @@ ("3" :> 3) @@ ("4" :> 4) @@ ("5" :> 5)
  @@ ("6" :> 6) @@ ("7" :> 7) @@ ("8" :> 8) @@ ("9" :> 9) @@ ("a" :> 10) @@ ("b" :> 11)
  @@ ("c" :> 12) @@ ("d" :> 13) @@ ("e" :> 14) @@ ("f" :> 15)

\* C6: escapeBuffer of n bytes is X' followed by 2n lowercase hexadecimal digits, two
\* per byte in byte order, followed by a quote; the empty buffer gives X''.
C6_EscapeBuffer ==
  ret.op = "escapeBuffer" =>
    LET b == ret.arg
        s == ret.out
    IN  /\ Len(s) = 2 * Len(b) + 3
        /\ s[1] = "X"
        /\ s[2] = Quote
        /\ s[Len(s)] = Quote
        /\ \A i \in 1..Len(b) :
             /\ s[2 * i + 1] \in DOMAIN LowerHexValue
             /\ s[2 * i + 2] \in DOMAIN LowerHexValue
             /\ 16 * LowerHexValue[s[2 * i + 1]] + LowerHexValue[s[2 * i + 2]] = b[i]
        /\ b = <<>> => s = <<"X", Quote, Quote>>

\* A buffer of several bytes was escaped, one of them below 16 and one with letter digits.
C6_Witness ==
  /\ ret.op = "escapeBuffer"
  /\ Len(ret.arg) >= 2
  /\ \E i, j \in 1..Len(ret.arg) : ret.arg[i] < 16 /\ ret.arg[j] > 160

----------------------------------------------------------------------------
(* Claims about the capability matrix *)

\* m.path[1].path[2]... is present
RECURSIVE HasPath(_, _)
HasPath(m, path) ==
  \/ path = <<>>
  \/ /\ Head(path) \in DOMAIN m
     /\ HasPath(m[Head(path)], Tail(path))

HasDeclaredKeys(m) ==
  /\ SchemaKeys \subseteq DOMAIN m
  /\ \A k \in DOMAIN NestedSchemaKeys : NestedSchemaKeys[k] \subseteq DOMAIN m[k]

\* C7 as stated: the record a read of supports returns has every key of the schema,
\* the nested ones and the native-type flags the tests branch on included.
C7_AsStated ==
  ret.op = "supports" =>
    /\ HasDeclaredKeys(ret.value)
    /\ HasPath(ret.value, TestLookupPath)

\* C8: every read of supports, on any instance of the dialect class and after any
\* other dialect operation, has returned one and the same record, whose fields are
\* what they were when it was read.
C8_SupportsShared ==
  /\ Cardinality(supportsSeen) <= 1
  /\ \A seen \in supportsSeen :
       /\ seen.ref = StaticSupportsOf("MysqlDialect")
       /\ seen.ref \in 1..Len(matrices)
       /\ matrices[seen.ref] = seen.value
  /\ ret.op = "supports" => [ref |-> ret.ref, value |-> ret.value] \in supportsSeen

\* supports was read on the second instance after the first had resolved its
\* overrides, the class declaring a matrix of its own.
C8_Witness ==
  /\ ret.op = "supports"
  /\ ret.inst = "d2"
  /\ dataTypeOverridesCache["d1"] # NoRef
  /\ staticSupports["MysqlDialect"] # NoRef
  /\ ret.value # DefaultSupports

----------------------------------------------------------------------------
(* MySQL BOOLEAN: toBindableValue, and a BOOLEAN column written and read back *)

\* A JavaScript value: its typeof-like type and the text of its literal.
Js(type, text) == [type |-> type, text |-> text]

JsTrue == Js("boolean", "true")
JsFalse == Js("boolean", "false")

\* The values the data-type tests pass as booleanAttr, and null and undefined.
JsValues ==
  {JsTrue, JsFalse, Js("number", "1"), Js("number", "0"),
   Js("string", "true"), Js("string", "false"), Js("string", "1"), Js("string", "0"),
   Js("string", "t"), Js("string", "f"), Js("string", ""),
   Js("bigint", "1"), Js("bigint", "0"), Js("buffer", "01"), Js("buffer", "00"),
   Js("null", "null"), Js("undefined", "undefined")}

\* NodeUtil.inspect(value), as the pieces of its text
inspect(value) ==
  CASE value.type = "string" -> <<Quote, value.text, Quote>>
    [] value.type = "bigint" -> <<value.text, "n">>
    [] value.type = "buffer" -> <<"<Buffer ", value.text, ">">>
    [] OTHER -> <<value.text>>

Bound(payload) == [threw |-> FALSE, payload |-> payload, message |-> <<>>]
Unsupported(message) == [threw |-> TRUE, payload |-> "", message |-> message]

\* value == true and value == false: loose equality converts the operand to a
\* number first.
toBindableValueLoose(value) ==
  IF value.type \in {"boolean", "number", "string", "bigint"} /\ value.text \in {"true", "1"}
     /\ ~(value.type = "string" /\ value.text = "true")
  THEN Bound("1")
  ELSE IF value.type \in {"boolean", "number", "string", "bigint"}
          /\ value.text \in {"false", "0", ""}
          /\ ~(value.type = "string" /\ value.text = "false")
  THEN Bound("0")
  ELSE Unsupported(<<"Unsupported value for BOOLEAN: ">> \o inspect(value))

\* BaseTypes.BOOLEAN's rendering kept: the words true and false.
toBindableValueWords(value) ==
  IF value = JsTrue THEN Bound("true")
  ELSE IF value = JsFalse THEN Bound("false")
  ELSE Unsupported(<<"Unsupported value for BOOLEAN: ">> \o inspect(value))

\* BOOLEAN.toBindableValue(value)
toBindableValue(value) ==
  IF value = JsTrue THEN Bound("1")
  ELSE IF value = JsFalse THEN Bound("0")
  ELSE Unsupported(<<"Unsupported value for BOOLEAN: ">> \o inspect(value))

\* BaseTypes.BOOLEAN.validate: on input only native booleans pass.
validate(value) == value.type = "boolean"

\* What a TINYINT(1) column (BOOLEAN.toSql) stores for a bound payload: the payload's
\* leading number, 0 when it has none.
storeTinyint(payload) == IF payload = "1" THEN 1 ELSE 0

\* BaseTypes.BOOLEAN's read path: the wire-level 1 and 0 become true and false.
parse(wire) == IF wire = 1 THEN JsTrue ELSE JsFalse

\* A call of BOOLEAN.toBindableValue(value)
ToBindableValueCall ==
  \E value \in JsValues :
    LET bound == toBindableValue(value)
    IN  /\ bret' = [op |-> "toBindableValue", arg |-> value, threw |-> bound.threw,
                    payload |-> bound.payload, message |-> bound.message]
        /\ UNCHANGED <<rows, dialectVars, typeVars>>

\* User.create({ booleanAttr: value }): the value is validated, then bound and inserted.
create ==
  \E value \in JsValues :
    /\ Len(rows) < MaxRows
    /\ IF validate(value)
       THEN LET bound == toBindableValue(value)
            IN  /\ rows' = Append(rows, [wire |-> storeTinyint(bound.payload), written |-> value])
                /\ bret' = [op |-> "create", arg |-> value, rejected |-> FALSE,
                            id |-> Len(rows) + 1]
       ELSE /\ bret' = [op |-> "create", arg |-> value, rejected |-> TRUE, id |-> 0]
            /\ UNCHANGED rows
    /\ UNCHANGED <<dialectVars, typeVars>>

\* User.findOne({ where: { id } }): the stored value comes back through parse.
findOne ==
  \E id \in 1..Len(rows) :
    /\ bret' = [op |-> "findOne", id |-> id, wire |-> rows[id].wire,
                out |-> parse(rows[id].wire)]
    /\ UNCHANGED <<rows, dialectVars, typeVars>>

BooleanInit == DialectIdle /\ BooleanIdle /\ TypeIdle

BooleanNext == ToBindableValueCall \/ create \/ findOne

BooleanSpec == BooleanInit /\ [][BooleanNext]_vars

----------------------------------------------------------------------------
(* Claims about MySQL BOOLEAN *)

\* C9: toBindableValue gives "1" for true and "0" for false, and for every other
\* value throws an error whose message carries the value as inspect renders it.
C9_ToBindableValue ==
  bret.op = "toBindableValue" =>
    /\ bret.arg = JsTrue => ~bret.threw /\ bret.payload = "1"
    /\ bret.arg = JsFalse => ~bret.threw /\ bret.payload = "0"
    /\ bret.arg.type # "boolean" =>
         /\ bret.threw
         /\ bret.payload = ""
         /\ bret.message[1] = "Unsupported value for BOOLEAN: "
         /\ \E i \in 2..Len(bret.message) : bret.message[i] = bret.arg.text

\* toBindableValue was called with the string '1'.
C9_Witness ==
  /\ bret.op = "toBindableValue"
  /\ bret.arg = Js("string", "1")
  /\ bret.threw

\* C10: create accepts native booleans only and rejects every string, number,
\* bigint and buffer; what findOne returns for a stored row is the boolean of its
\* wire-level 1 or 0, and is the boolean that was written.
C10_Asymmetric ==
  /\ bret.op = "create" => (bret.rejected <=> bret.arg.type # "boolean")
  /\ bret.op = "create" /\ ~bret.rejected =>
       /\ bret.id = Len(rows)
       /\ rows[bret.id].wire = (IF bret.arg = JsTrue THEN 1 ELSE 0)
  /\ bret.op = "findOne" =>
       /\ bret.wire \in {0, 1}
       /\ bret.out = (IF bret.wire = 1 THEN JsTrue ELSE JsFalse)
       /\ bret.out = rows[bret.id].written

\* A row written as true after a row written as false was read back.
C10_Witness ==
  /\ bret.op = "findOne"
  /\ bret.id = 2
  /\ rows[1].written = JsFalse
  /\ rows[2].written = JsTrue
  /\ bret.out = JsTrue

----------------------------------------------------------------------------
(* Numeric data types: the values a model attribute can be given.  A JS     *)
(* value is a record: a number is finite (sign, integer digits, fraction    *)
(* digits), NaN or an infinity; a bigint is a sign and digits; a string is  *)
(* its characters.  Digits are characters, so that integers beyond 2^53     *)
(* keep every digit.                                                        *)

Digits == <<"0", "1", "2", "3", "4", "5", "6", "7", "8", "9">>

DigitValue(ch) == (CHOOSE i \in 1..10 : Digits[i] = ch) - 1

JsNumber(neg, int, frac) ==
  [type |-> "number", kind |-> "finite", neg |-> neg, int |-> int, frac |-> frac, chars |-> <<>>]

JsNaN ==
  [type |-> "number", kind |-> "NaN", neg |-> FALSE, int |-> <<>>, frac |-> <<>>, chars |-> <<>>]

JsInfinity(neg) ==
  [type |-> "number", kind |-> "Infinity", neg |-> neg, int |-> <<>>, frac |-> <<>>, chars |-> <<>>]

JsBigInt(neg, int) ==
  [type |-> "bigint", kind |-> "finite", neg |-> neg, int |-> int, frac |-> <<>>, chars |-> <<>>]

JsString(chars) ==
  [type |-> "string", kind |-> "string", neg |-> FALSE, int |-> <<>>, frac |-> <<>>, chars |-> chars]

JsUndefined ==
  [type |-> "undefined", kind |-> "undefined", neg |-> FALSE, int |-> <<>>, frac |-> <<>>, chars |-> <<>>]

\* Number.MAX_SAFE_INTEGER, 2^53 - 1
MAX_SAFE_INTEGER ==
  <<"9", "0", "0", "7", "1", "9", "9", "2", "5", "4", "7", "4", "0", "9", "9", "1">>

\* 2^53 and 2^53 + 1: the first magnitudes a number cannot hold exactly
TwoTo53 == SubSeq(MAX_SAFE_INTEGER, 1, 15) \o <<"2">>

OneTwoThree == <<"1", "2", "3">>

\* the values the tests write to every numeric attribute
SmallInputs ==
  { JsNumber(FALSE, OneTwoThree, <<>>), JsNumber(TRUE, OneTwoThree, <<>>),
    JsNumber(FALSE, <<"0">>, <<>>),
    JsNumber(FALSE, OneTwoThree, <<"4">>), JsNumber(TRUE, <<"0">>, <<"5">>),
    JsNaN, JsInfinity(FALSE), JsInfinity(TRUE),
    JsBigInt(FALSE, OneTwoThree), JsBigInt(TRUE, OneTwoThree),
    JsString(OneTwoThree), JsString(<<"-">> \o OneTwoThree),
    JsString(OneTwoThree \o <<".", "4">>),
    JsString(<<>>), JsString(<<"a", "b", "c">>), JsString(<<"1", "2", "a">>),
    JsString(<<"1", ".", "2", ".", "3">>), JsString(<<"-">>) }

\* the values around the safe-integer limit, written to BIGINT and DECIMAL attributes
LargeInputs ==
  { JsNumber(FALSE, MAX_SAFE_INTEGER, <<>>), JsNumber(TRUE, MAX_SAFE_INTEGER, <<>>),
    JsNumber(FALSE, TwoTo53, <<>>), JsNumber(TRUE, TwoTo53, <<>>),
    JsBigInt(FALSE, MAX_SAFE_INTEGER), JsBigInt(FALSE, TwoTo53), JsBigInt(TRUE, TwoTo53),
    JsBigInt(FALSE, SubSeq(MAX_SAFE_INTEGER, 1, 15) \o <<"3">>),
    JsString(TwoTo53), JsString(<<"-">> \o TwoTo53),
    JsString(SubSeq(MAX_SAFE_INTEGER, 1, 15) \o <<"3">>) }

IntegerTypes == {"SMALLINT", "INTEGER", "BIGINT"}

FloatTypes == {"REAL", "DOUBLE", "FLOAT"}

NumberTypes == IntegerTypes \cup FloatTypes \cup {"DECIMAL"}

InputsFor(T) ==
  IF T \in {"BIGINT", "DECIMAL"} THEN SmallInputs \cup LargeInputs ELSE SmallInputs

----------------------------------------------------------------------------
(* Numeric data types: validation, binding, the column and the read back *)

RECURSIVE LexLeq(_, _)
LexLeq(a, b) ==
  IF a = <<>> THEN TRUE
  ELSE IF DigitValue(Head(a)) < DigitValue(Head(b)) THEN TRUE
  ELSE IF DigitValue(Head(a)) > DigitValue(Head(b)) THEN FALSE
  ELSE LexLeq(Tail(a), Tail(b))

\* |a| <= |b| for two digit strings without leading zeros
MagnitudeLeq(a, b) ==
  \/ Len(a) < Len(b)
  \/ Len(a) = Len(b) /\ LexLeq(a, b)

isInteger(v) == v.type = "number" /\ v.kind = "finite" /\ v.frac = <<>>

isSafeInteger(v) == isInteger(v) /\ MagnitudeLeq(v.int, MAX_SAFE_INTEGER)

StripSign(chars) ==
  IF chars # <<>> /\ Head(chars) \in {"-", "+"} THEN Tail(chars) ELSE chars

AllDigits(chars) == \A i \in 1..Len(chars) : chars[i] \in {Digits[d] : d \in 1..10}

IndexOf(chars, ch) ==
  IF \E i \in 1..Len(chars) : chars[i] = ch
  THEN CHOOSE i \in 1..Len(chars) : chars[i] = ch /\ \A j \in 1..(i - 1) : chars[j] # ch
  ELSE 0

\* an optional sign and at least one digit
isIntegerText(chars) ==
  LET digits == StripSign(chars) IN digits # <<>> /\ AllDigits(digits)

\* an optional sign, digits, and at most one point followed by digits
isNumericText(chars) ==
  LET unsigned == StripSign(chars)
      point == IndexOf(unsigned, ".")
  IN IF point = 0 THEN unsigned # <<>> /\ AllDigits(unsigned)
     ELSE /\ point > 1 /\ point < Len(unsigned)
          /\ AllDigits(SubSeq(unsigned, 1, point - 1))
          /\ AllDigits(SubSeq(unsigned, point + 1, Len(unsigned)))

\* the integer types without the safe-integer test
validateIntegerAnyMagnitude(v) ==
  CASE v.type = "number" -> isInteger(v)
    [] v.type = "bigint" -> TRUE
    [] v.type = "string" -> isIntegerText(v.chars)
    [] OTHER -> FALSE

\* SMALLINT, INTEGER, BIGINT: TRUE when the value is accepted
validateInteger(v) ==
  CASE v.type = "number" -> isInteger(v) /\ isSafeInteger(v)
    [] v.type = "bigint" -> TRUE
    [] v.type = "string" -> isIntegerText(v.chars)
    [] OTHER -> FALSE

\* the floating-point types accepting finite numbers only
validateFiniteNumber(v) ==
  CASE v.type = "number" -> v.kind = "finite"
    [] v.type = "bigint" -> TRUE
    [] v.type = "string" -> isNumericText(v.chars)
    [] OTHER -> FALSE

\* REAL, DOUBLE, FLOAT: TRUE when the value is accepted
validateDecimalNumber(v) ==
  CASE v.type = "number" -> TRUE
    [] v.type = "bigint" -> TRUE
    [] v.type = "string" -> isNumericText(v.chars)
    [] OTHER -> FALSE

\* DECIMAL accepting every number
validateDecimalAnyNumber(v) ==
  CASE v.type = "number" -> TRUE
    [] v.type = "bigint" -> TRUE
    [] v.type = "string" -> isNumericText(v.chars)
    [] OTHER -> FALSE

\* DECIMAL: TRUE when the value is accepted
validateDecimal(v) ==
  CASE v.type = "number" ->
         \/ v.kind = "NaN"
         \/ v.kind = "finite" /\ (isInteger(v) => isSafeInteger(v))
    [] v.type = "bigint" -> TRUE
    [] v.type = "string" -> isNumericText(v.chars)
    [] OTHER -> FALSE

validateNumber(T, v) ==
  IF T \in IntegerTypes THEN validateInteger(v)
  ELSE IF T \in FloatTypes THEN validateDecimalNumber(v)
  ELSE validateDecimal(v)

Sign(neg) == IF neg THEN <<"-">> ELSE <<>>

InfinityText == <<"I", "n", "f", "i", "n", "i", "t", "y">>

\* String(v): the decimal text of a number or bigint, a string as it is
toText(v) ==
  CASE v.type = "string" -> v.chars
    [] v.kind = "NaN" -> <<"N", "a", "N">>
    [] v.kind = "Infinity" -> Sign(v.neg) \o InfinityText
    [] OTHER -> Sign(v.neg) \o v.int \o (IF v.frac = <<>> THEN <<>> ELSE <<".">> \o v.frac)

\* the payload a numeric value is bound as
numberToBindableValue(v) == toText(v)

\* Number(text): the number a field text denotes
toNumber(chars) ==
  LET neg == chars # <<>> /\ Head(chars) = "-"
      unsigned == StripSign(chars)
      point == IndexOf(unsigned, ".")
  IN IF chars = <<"N", "a", "N">> THEN JsNaN
     ELSE IF unsigned = InfinityText THEN JsInfinity(neg)
     ELSE IF point = 0 THEN JsNumber(neg, unsigned, <<>>)
     ELSE JsNumber(neg, SubSeq(unsigned, 1, point - 1),
                   SubSeq(unsigned, point + 1, Len(unsigned)))

\* the column keeps the number the payload denotes
storeNumber(payload) == toNumber(payload)

\* value.string(): the text of the field as the server sends it
string(stored) == toText(stored)

\* BIGINT.parse converting the field to a number
BigintParseNumber(stored) == toNumber(string(stored))

\* BIGINT.parse
BigintParse(stored) == JsString(string(stored))

\* DECIMAL read back converted to a number
DecimalParseNumber(stored) == toNumber(string(stored))

\* DECIMAL read back: the exact decimal text, NaN as the number NaN
DecimalParse(stored) ==
  IF stored.kind = "NaN" THEN JsNaN ELSE JsString(string(stored))

\* the read back of a numeric attribute: the integer and floating types other than
\* BIGINT come back as numbers
parseNumber(T, stored) ==
  IF T = "BIGINT" THEN BigintParse(stored)
  ELSE IF T = "DECIMAL" THEN DecimalParse(stored)
  ELSE toNumber(string(stored))

\* Model.create({ attr: v }) on an attribute of numeric type T
numberCreate ==
  \E T \in NumberTypes : \E v \in InputsFor(T) :
    IF validateNumber(T, v)
    THEN /\ numberRow' = [type |-> T, stored |-> storeNumber(numberToBindableValue(v)),
                          payload |-> numberToBindableValue(v), written |-> v]
         /\ numberRet' = [op |-> "create", type |-> T, arg |-> v, rejected |-> FALSE,
                          out |-> JsUndefined]
         /\ UNCHANGED <<dialectVars, booleanVars, dateVars, geometryVars, enumVars, bindVars, modelVars>>
    ELSE /\ numberRet' = [op |-> "create", type |-> T, arg |-> v, rejected |-> TRUE,
                          out |-> JsUndefined]
         /\ UNCHANGED <<numberRow, dialectVars, booleanVars, dateVars, geometryVars, enumVars, bindVars, modelVars>>

\* Model.findOne: the row is read back through the type's parse
numberFindOne ==
  /\ numberRow # NoRow
  /\ numberRet' = [op |-> "findOne", type |-> numberRow.type, arg |-> numberRow.written,
                   rejected |-> FALSE, out |-> parseNumber(numberRow.type, numberRow.stored)]
  /\ UNCHANGED <<numberRow, dialectVars, booleanVars, dateVars, geometryVars, enumVars, bindVars, modelVars>>

NumberInit ==
  /\ DialectIdle /\ BooleanIdle /\ TypeIdle

NumberNext == numberCreate \/ numberFindOne

NumberSpec == NumberInit /\ [][NumberNext]_vars

----------------------------------------------------------------------------
(* Claims about the numeric data types *)

\* the integer a value accepted by BIGINT denotes, as decimal text
IntegerText(v) == IF v.type = "string" THEN v.chars ELSE Sign(v.neg) \o v.int

ReadBack(T) == numberRet.op = "findOne" /\ numberRet.type = T

Created(T) == numberRet.op = "create" /\ numberRet.type = T

\* C11: a BIGINT value is bound as the decimal text of its integer, whatever its
\* JavaScript type (123, "123" and 123n all bind "123"), and is always read back
\* as a string holding exactly those digits (2^53 as a bigint reads back as
\* "9007199254740992").
C11_BigintReadBack ==
  /\ (numberRow # NoRow /\ numberRow.type = "BIGINT")
       => numberRow.payload = IntegerText(numberRow.written)
  /\ ReadBack("BIGINT")
       => /\ numberRet.out.type = "string"
          /\ numberRet.out.chars = IntegerText(numberRet.arg)

C11_Witness ==
  /\ ReadBack("BIGINT")
  /\ numberRet.arg = JsBigInt(FALSE, TwoTo53)
  /\ numberRet.out = JsString(TwoTo53)

NonFinite == {JsNaN, JsInfinity(FALSE), JsInfinity(TRUE)}

Fractional(v) == v.type = "number" /\ v.kind = "finite" /\ v.frac # <<>>

\* a native number whose magnitude is 2^53 or more
BeyondSafe(v) ==
  /\ v.type = "number" /\ v.kind = "finite" /\ v.frac = <<>>
  /\ v.int # MAX_SAFE_INTEGER
  /\ MagnitudeLeq(MAX_SAFE_INTEGER, v.int)

\* C12: creating a BIGINT attribute is rejected for every native number of
\* magnitude above 2^53 - 1, every fractional or non-finite number and every
\* string that is not an integer ('', 'abc', '123.4'); every bigint and every
\* integer string is accepted, those of magnitude 2^53 and above included.
C12_BigintValidation ==
  Created("BIGINT") =>
    LET v == numberRet.arg IN
    /\ (BeyondSafe(v) \/ Fractional(v) \/ v \in NonFinite) => numberRet.rejected
    /\ v \in {JsString(<<>>), JsString(<<"a", "b", "c">>), JsString(OneTwoThree \o <<".", "4">>)}
         => numberRet.rejected
    /\ (v.type = "string" /\ ~isIntegerText(v.chars)) => numberRet.rejected
    /\ v.type = "bigint" => ~numberRet.rejected
    /\ (v.type = "string" /\ isIntegerText(v.chars)) => ~numberRet.rejected

C12_Witness ==
  /\ Created("BIGINT")
  /\ numberRet.arg = JsNumber(TRUE, TwoTo53, <<>>)
  /\ numberRet.rejected
  /\ numberRow # NoRow
  /\ numberRow.written = JsString(<<"-">> \o TwoTo53)

\* C13: REAL, DOUBLE and FLOAT accept NaN, +Infinity and -Infinity and read each
\* back as the value written; SMALLINT, INTEGER and BIGINT reject NaN, both
\* infinities and every fractional number.
C13_NonFiniteNumbers ==
  /\ \A T \in FloatTypes :
       /\ (Created(T) /\ numberRet.arg \in NonFinite) => ~numberRet.rejected
       /\ (ReadBack(T) /\ numberRet.arg \in NonFinite) => numberRet.out = numberRet.arg
  /\ \A T \in IntegerTypes :
       (Created(T) /\ (numberRet.arg \in NonFinite \/ Fractional(numberRet.arg)))
         => numberRet.rejected

C13_Witness ==
  /\ ReadBack("DOUBLE")
  /\ numberRet.arg = JsInfinity(TRUE)
  /\ numberRet.out = JsInfinity(TRUE)

DecimalRejects(v) ==
  \/ v \in {JsInfinity(FALSE), JsInfinity(TRUE)}
  \/ BeyondSafe(v)
  \/ v \in {JsString(<<>>), JsString(<<"a", "b", "c">>)}

----------------------------------------------------------------------------
(* MySQL DATE.  An instant is a day number counted from 1970-01-01 UTC and  *)
(* the milliseconds elapsed in that day; a civil time is the calendar       *)
(* fields of a wall clock.                                                  *)

Instant(day, ms) == [day |-> day, ms |-> ms]

\* the dates written: on 2014-06-01, 2020-02-29, 2021-12-31 and 2022-01-01, at
\* 00:00:00.000, 00:00:00.001, 05:07:09.045, 12:00:00.000, 18:30:00.000, 23:59:59.999
DateInputs ==
  {Instant(day, ms) : day \in {16222, 18321, 18992, 18993},
                      ms \in {0, 1, 18429045, 43200000, 66600000, 86399999}}

Timezones == {"+00:00", "+05:30", "-08:00", "America/New_York"}

\* the calendar date of a day number
civilFromDays(day) ==
  LET z == day + 719468
      era == z \div 146097
      doe == z - era * 146097
      yoe == (doe - doe \div 1460 + doe \div 36524 - doe \div 146096) \div 365
      doy == doe - (365 * yoe + yoe \div 4 - yoe \div 100)
      mp == (5 * doy + 2) \div 153
      m == IF mp < 10 THEN mp + 3 ELSE mp - 9
  IN [year |-> yoe + era * 400 + (IF m <= 2 THEN 1 ELSE 0),
      month |-> m,
      date |-> doy - (153 * mp + 2) \div 5 + 1]

\* the offset from UTC, in minutes, the zone has at an instant
utcOffset(tz, instant) ==
  CASE tz = "+00:00" -> 0
    [] tz = "+05:30" -> 330
    [] tz = "-08:00" -> -480
    [] tz = "America/New_York" ->
         IF civilFromDays(instant.day).month \in 4..10 THEN -240 ELSE -300

\* the wall clock of a zone at an instant
civil(instant, offset) ==
  LET shifted == instant.ms + offset * 60000
      ms == shifted % 86400000
      ymd == civilFromDays(instant.day + shifted \div 86400000)
  IN [year |-> ymd.year, month |-> ymd.month, date |-> ymd.date,
      hour |-> ms \div 3600000, minute |-> (ms \div 60000) % 60,
      second |-> (ms \div 1000) % 60, millisecond |-> ms % 1000]

\* AbstractDataType DATE._applyTimezone: the date as a dayjs object in options.timezone
applyTimezone(date, options) == civil(date, utcOffset(options.timezone, date))

RECURSIVE Pad(_, _)
Pad(n, width) ==
  IF width = 0 THEN <<>> ELSE Pad(n \div 10, width - 1) \o <<Digits[(n % 10) + 1]>>

\* dayjs format('YYYY-MM-DD HH:mm:ss.SSS')
format(d) ==
  Pad(d.year, 4) \o <<"-">> \o Pad(d.month, 2) \o <<"-">> \o Pad(d.date, 2) \o <<" ">>
    \o Pad(d.hour, 2) \o <<":">> \o Pad(d.minute, 2) \o <<":">> \o Pad(d.second, 2)
    \o <<".">> \o Pad(d.millisecond, 3)

\* DATE.toBindableValue formatting the date without applying options.timezone
DateToBindableValueUtc(date, options) == format(civil(date, 0))

\* DATE.toBindableValue
DateToBindableValue(date, options) == format(applyTimezone(date, options))

RECURSIVE NumberOf(_)
NumberOf(digits) ==
  IF digits = <<>> THEN 0
  ELSE NumberOf(SubSeq(digits, 1, Len(digits) - 1)) * 10 + DigitValue(digits[Len(digits)])

\* the calendar fields a 'YYYY-MM-DD HH:mm:ss.SSS' text denotes
readCivil(text) ==
  [year |-> NumberOf(SubSeq(text, 1, 4)), month |-> NumberOf(SubSeq(text, 6, 7)),
   date |-> NumberOf(SubSeq(text, 9, 10)), hour |-> NumberOf(SubSeq(text, 12, 13)),
   minute |-> NumberOf(SubSeq(text, 15, 16)), second |-> NumberOf(SubSeq(text, 18, 19)),
   millisecond |-> NumberOf(SubSeq(text, 21, 23))]

\* the day number of a calendar date
daysFromCivil(year, month, date) ==
  LET y == IF month <= 2 THEN year - 1 ELSE year
      era == y \div 400
      yoe == y - era * 400
      doy == (153 * (IF month > 2 THEN month - 3 ELSE month + 9) + 2) \div 5 + date - 1
      doe == yoe * 365 + yoe \div 4 - yoe \div 100 + doy
  IN era * 146097 + doe - 719468

\* the instant at which a zone `offset` minutes ahead of UTC shows the wall clock d
instantOf(d, offset) ==
  LET ms == ((d.hour * 60 + d.minute) * 60 + d.second) * 1000 + d.millisecond
             - offset * 60000
  IN Instant(daysFromCivil(d.year, d.month, d.date) + ms \div 86400000, ms % 86400000)

\* the DATETIME column keeps the wall clock the payload spells, and no zone
storeDatetime(payload) == readCivil(payload)

\* value.string() of a DATETIME field
datetimeString(stored) == format(stored)

\* DATE.parse
DateParse(stored) == datetimeString(stored) \o <<"+", "0", "0">>

\* new Date(text) for a 'YYYY-MM-DD HH:mm:ss.SSS+hh' text
newDate(text) ==
  LET hours == NumberOf(SubSeq(text, 25, Len(text)))
  IN instantOf(readCivil(text), IF text[24] = "-" THEN 0 - hours * 60 ELSE hours * 60)

\* dataType.toBindableValue(date, { timezone })
DateToBindableValueCall ==
  \E date \in DateInputs :
    /\ dateRet' = [op |-> "toBindableValue", arg |-> date,
                   text |-> DateToBindableValue(date, [timezone |-> timezone]), out |-> date]
    /\ UNCHANGED <<timezone, dateRow, dialectVars, booleanVars, numberVars, geometryVars, enumVars, bindVars, modelVars>>

\* Model.create({ dateAttr: date })
dateCreate ==
  \E date \in DateInputs :
    LET payload == DateToBindableValue(date, [timezone |-> timezone]) IN
    /\ dateRow' = [stored |-> storeDatetime(payload), written |-> date]
    /\ dateRet' = [op |-> "create", arg |-> date, text |-> payload, out |-> date]
    /\ UNCHANGED <<timezone, dialectVars, booleanVars, numberVars, geometryVars, enumVars, bindVars, modelVars>>

\* Model.findOne: the field goes through DATE.parse and becomes a Date
dateFindOne ==
  /\ dateRow # NoRow
  /\ dateRet' = [op |-> "findOne", arg |-> dateRow.written, text |-> DateParse(dateRow.stored),
                 out |-> newDate(DateParse(dateRow.stored))]
  /\ UNCHANGED <<timezone, dateRow, dialectVars, booleanVars, numberVars, geometryVars, enumVars, bindVars, modelVars>>

\* the values handed to DATE.sanitize: timestamp strings, Date objects and a number
\* of milliseconds, each with the instant it denotes when read as UTC
DateValues ==
  {[kind |-> kind, text |-> IF kind = "string" THEN format(civil(date, 0)) ELSE <<>>,
    instant |-> date] :
     kind \in {"string", "Date", "number"},
     date \in {Instant(16222, 43200000), Instant(18992, 86399999), Instant(18993, 0)}}

\* AbstractDataType DATE.sanitize: new Date(value), a Date kept as it is
baseSanitize(value) ==
  [via |-> "super",
   out |-> IF value.kind = "string" THEN instantOf(readCivil(value.text), 0)
           ELSE value.instant]

\* DATE.sanitize leaving every value to the base class
DateSanitizeSuper(value, options) == baseSanitize(value)

\* DATE.sanitize
DateSanitize(value, options) ==
  LET isValidTimeZone == options.timezone = "America/New_York"
      wallClock == readCivil(value.text)
  IN IF value.kind = "string" /\ options.timezone \notin {undefined, ""}
     THEN IF isValidTimeZone
          THEN [via |-> "dayjs.tz",
                out |-> instantOf(wallClock,
                                  utcOffset(options.timezone, instantOf(wallClock, 0)))]
          ELSE [via |-> "new Date",
                out |-> instantOf(wallClock, utcOffset(options.timezone, value.instant))]
     ELSE baseSanitize(value)

\* dataType.sanitize(value, options)
DateSanitizeCall ==
  \E value \in DateValues : \E tz \in Timezones \cup {undefined, ""} :
    /\ dateRet' = [op |-> "sanitize", arg |-> value, text |-> <<tz>>,
                   out |-> DateSanitize(value, [timezone |-> tz])]
    /\ UNCHANGED <<timezone, dateRow, dialectVars, booleanVars, numberVars, geometryVars, enumVars, bindVars, modelVars>>

DateInit ==
  /\ DialectIdle /\ BooleanIdle
  /\ numberRow = NoRow /\ numberRet = NoCall
  /\ timezone \in Timezones /\ dateRow = NoRow /\ dateRet = NoCall
  /\ geometry = NoInstance /\ geometryRet = NoCall
  /\ enum = NoInstance /\ enumRet = NoCall
  /\ collectors = [b \in Builds |-> NoCollector] /\ bindRet = NoCall
  /\ models = <<>> /\ defineRet = NoCall

DateNext == DateToBindableValueCall \/ dateCreate \/ dateFindOne \/ DateSanitizeCall

DateSpec == DateInit /\ [][DateNext]_vars

----------------------------------------------------------------------------
(* Claims about MySQL DATE *)

\* the shape YYYY-MM-DD HH:mm:ss.SSS: 23 characters, digits between the separators
HasBindFormat(text) ==
  /\ Len(text) = 23
  /\ \A i \in 1..23 :
       CASE i \in {5, 8} -> text[i] = "-"
         [] i = 11 -> text[i] = " "
         [] i \in {14, 17} -> text[i] = ":"
         [] i = 20 -> text[i] = "."
         [] OTHER -> text[i] \in {Digits[d] : d \in 1..10}

\* C16: DATE.toBindableValue gives a text of exactly the shape
\* YYYY-MM-DD HH:mm:ss.SSS, with three fractional digits and no zone suffix, and
\* the wall clock it spells is that of options.timezone at the date's instant.
C16_DateBindFormat ==
  dateRet.op = "toBindableValue" =>
    /\ HasBindFormat(dateRet.text)
    /\ instantOf(readCivil(dateRet.text), utcOffset(timezone, dateRet.arg)) = dateRet.arg

C16_Witness ==
  /\ dateRet.op = "toBindableValue"
  /\ timezone = "+05:30"
  /\ dateRet.arg = Instant(18992, 86399999)
  /\ dateRet.text = <<"2", "0", "2", "2", "-", "0", "1", "-", "0", "1", " ",
                      "0", "5", ":", "2", "9", ":", "5", "9", ".", "9", "9", "9">>

\* C17 as stated: a DATE written through toBindableValue and read back through
\* parse is the instant written, for every target timezone.
C17_AsStated == dateRet.op = "findOne" => dateRet.out = dateRet.arg

\* C24: DATE.sanitize reads a string as a wall clock of options.timezone only
\* when the value is a string and a timezone is given: through dayjs.tz when the
\* timezone is a valid zone name, else through new Date of the value with the
\* timezone text appended. For every other value, and for a string without a
\* timezone, it returns exactly what the base sanitize returns.
C24_DateSanitize ==
  dateRet.op = "sanitize" =>
    LET value == dateRet.arg
        tz == dateRet.text[1]
        got == dateRet.out
    IN IF value.kind = "string" /\ tz \in Timezones
       THEN /\ got.via = (IF tz = "America/New_York" THEN "dayjs.tz" ELSE "new Date")
            /\ format(civil(got.out, utcOffset(tz, got.out))) = value.text
       ELSE got = baseSanitize(value)

C24_Witness ==
  /\ dateRet.op = "sanitize"
  /\ dateRet.arg.kind = "string"
  /\ dateRet.text = <<"+05:30">>
  /\ dateRet.arg.instant = Instant(18993, 0)
  /\ dateRet.out = [via |-> "new Date", out |-> Instant(18992, 66600000)]

----------------------------------------------------------------------------
(* MySQL GEOMETRY *)

SUPPORTED_GEOMETRY_TYPES == <<"POINT", "LINESTRING", "POLYGON">>

\* the subtypes a caller can name, and none
GeometryTypeInputs ==
  {undefined, "POINT", "LINESTRING", "POLYGON", "MULTIPOINT", "MULTILINESTRING",
   "MULTIPOLYGON", "GEOMETRYCOLLECTION"}

includes(list, x) == \E i \in 1..Len(list) : list[i] = x

\* Array.prototype.join on an array of texts
RECURSIVE join(_, _)
join(texts, separator) ==
  IF texts = <<>> THEN <<>>
  ELSE IF Len(texts) = 1 THEN texts[1]
  ELSE texts[1] \o separator \o join(Tail(texts), separator)

\* the constructor accepting every subtype
GeometryConstructorAnyType(type, srid) ==
  [threw |-> FALSE, error |-> NoError, options |-> [type |-> type, srid |-> srid]]

\* new GEOMETRY(type, srid)
GeometryConstructor(type, srid) ==
  LET options == [type |-> type, srid |-> srid] IN
  IF options.type # undefined /\ ~includes(SUPPORTED_GEOMETRY_TYPES, options.type)
  THEN [threw |-> TRUE,
        error |-> [class |-> "Error",
                   message |-> <<"Supported geometry types are: ">>
                                 \o join([i \in 1..Len(SUPPORTED_GEOMETRY_TYPES) |->
                                            <<SUPPORTED_GEOMETRY_TYPES[i]>>], <<", ">>)],
        options |-> options]
  ELSE [threw |-> FALSE, error |-> NoError, options |-> options]

GeometryNew ==
  \E type \in GeometryTypeInputs : \E srid \in {undefined, "4326"} :
    LET made == GeometryConstructor(type, srid) IN
    /\ geometryRet' = [op |-> "new", type |-> type, threw |-> made.threw, error |-> made.error,
                       out |-> <<>>]
    /\ geometry' = IF made.threw THEN geometry
                   ELSE [class |-> "GEOMETRY", options |-> made.options]
    /\ UNCHANGED <<dialectVars, booleanVars, numberVars, dateVars, enumVars, bindVars, modelVars>>

\* GEOMETRY.toSql: the first use of a constructed type
GeometryToSql ==
  /\ geometry # NoInstance
  /\ geometryRet' = [op |-> "toSql", type |-> geometry.options.type, threw |-> FALSE,
                     error |-> NoError,
                     out |-> IF geometry.options.type # undefined
                             THEN <<geometry.options.type>> ELSE <<"GEOMETRY">>]
  /\ UNCHANGED <<geometry, dialectVars, booleanVars, numberVars, dateVars, enumVars, bindVars, modelVars>>

JsValue(kind, bytes, chars) == [kind |-> kind, bytes |-> bytes, chars |-> chars]

JsNull == JsValue("null", <<>>, <<>>)

\* the values handed to GEOMETRY.sanitize: every buffer within the bound, null,
\* undefined, the numbers 5 and 0, false, the empty string and two WKT strings
GeometryValues ==
  {JsValue("buffer", bytes, <<>>) : bytes \in SeqsUpTo({1, 230}, MaxWkbLen)}
    \cup {JsNull, JsValue("undefined", <<>>, <<>>), JsValue("number", <<>>, <<"5">>),
          JsValue("number", <<>>, <<"0">>), JsValue("boolean", <<>>, <<"false">>),
          JsValue("string", <<>>, <<>>), JsValue("string", <<>>, <<"P", "O", "I", "N", "T">>),
          JsValue("string", <<>>, <<"P", "O", "I", "N", "T", "(", "1", " ", "2", ")">>)}

\* value == null in place of !value
FalsyNullish(value) == value.kind \in {"null", "undefined"}

\* !value
Falsy(value) ==
  \/ value.kind \in {"null", "undefined"}
  \/ value.kind = "string" /\ value.chars = <<>>
  \/ value.kind = "number" /\ value.chars = <<"0">>
  \/ value.kind = "boolean" /\ value.chars = <<"false">>

\* value.length of a string or buffer
length(value) == IF value.kind = "buffer" THEN Len(value.bytes) ELSE Len(value.chars)

\* buffer.subarray(start)
subarray(buffer, start) ==
  JsValue("buffer", SubSeq(buffer.bytes, start + 1, Len(buffer.bytes)), <<>>)

\* new Error('Invalid value for GEOMETRY type. Expected string or buffer.')
InvalidGeometryError ==
  [class |-> "Error",
   message |-> <<"Invalid value for GEOMETRY type. Expected string or buffer.">>]

GeometryReturned(kind, value, shortCrs) ==
  [threw |-> FALSE, error |-> NoError, kind |-> kind, value |-> value, shortCrs |-> shortCrs]

\* wkx.Geometry.parse(input).toGeoJSON(options): the GeoJSON of the geometry the
\* input encodes, which the library alone determines
toGeoJSON(input, options) == GeometryReturned("GeoJSON", input, options.shortCrs)

\* GEOMETRY.sanitize handing the parser the whole buffer
GeometrySanitizeWhole(value) ==
  IF Falsy(value) THEN GeometryReturned("null", JsNull, FALSE)
  ELSE IF value.kind \notin {"string", "buffer"}
  THEN [threw |-> TRUE, error |-> InvalidGeometryError, kind |-> "none", value |-> JsNull,
        shortCrs |-> FALSE]
  ELSE IF length(value) = 0 THEN GeometryReturned("value", value, FALSE)
  ELSE toGeoJSON(value, [shortCrs |-> TRUE])

\* GEOMETRY.sanitize
GeometrySanitize(value) ==
  IF Falsy(value) THEN GeometryReturned("null", JsNull, FALSE)
  ELSE IF value.kind \notin {"string", "buffer"}
  THEN [threw |-> TRUE, error |-> InvalidGeometryError, kind |-> "none", value |-> JsNull,
        shortCrs |-> FALSE]
  ELSE IF length(value) = 0 THEN GeometryReturned("value", value, FALSE)
  ELSE LET sanitizedValue == IF value.kind = "buffer" THEN subarray(value, 4) ELSE value
       IN toGeoJSON(sanitizedValue, [shortCrs |-> TRUE])

GeometrySanitizeCall ==
  \E value \in GeometryValues :
    /\ geometry # NoInstance
    /\ geometryRet' = [op |-> "sanitize", arg |-> value, out |-> GeometrySanitize(value)]
    /\ UNCHANGED <<geometry, dialectVars, booleanVars, numberVars, dateVars, enumVars, bindVars, modelVars>>

GeometryInit ==
  /\ DialectIdle /\ BooleanIdle /\ TypeIdle

GeometryNext == GeometryNew \/ GeometryToSql \/ GeometrySanitizeCall

GeometrySpec == GeometryInit /\ [][GeometryNext]_vars

----------------------------------------------------------------------------
(* Claims about MySQL GEOMETRY *)

Whitelist == {"POINT", "LINESTRING", "POLYGON"}

\* C18: constructing GEOMETRY with a subtype outside POINT, LINESTRING, POLYGON
\* throws in the constructor an error whose message lists the three supported
\* types, so no instance with such a subtype ever exists; a whitelisted subtype
\* or none constructs.
C18_GeometryConstructor ==
  /\ geometryRet.op = "new" =>
       IF geometryRet.type \in Whitelist \cup {undefined}
       THEN /\ ~geometryRet.threw
            /\ geometry.class = "GEOMETRY"
            /\ geometry.options.type = geometryRet.type
       ELSE /\ geometryRet.threw
            /\ \A t \in Whitelist : includes(geometryRet.error.message, t)
  /\ geometry # NoInstance => geometry.options.type \in Whitelist \cup {undefined}

C18_Witness ==
  /\ geometryRet.op = "new"
  /\ geometryRet.type = "MULTIPOINT"
  /\ geometryRet.threw
  /\ geometry # NoInstance
  /\ geometry.options.type = "POLYGON"

\* C19: sanitize returns an empty buffer as it is; of a buffer of n > 0 bytes it
\* hands the WKB parser exactly the bytes at indices 4 .. n-1, none when n <= 4,
\* and returns the parser's GeoJSON with the short form of the CRS.
C19_SanitizeBuffer ==
  (geometryRet.op = "sanitize" /\ geometryRet.arg.kind = "buffer") =>
    LET bytes == geometryRet.arg.bytes
        n == Len(bytes)
        out == geometryRet.out
    IN IF n = 0 THEN ~out.threw /\ out.kind = "value" /\ out.value = geometryRet.arg
       ELSE /\ ~out.threw
            /\ out.kind = "GeoJSON"
            /\ out.shortCrs
            /\ out.value.kind = "buffer"
            /\ Len(out.value.bytes) = (IF n <= 4 THEN 0 ELSE n - 4)
            /\ \A i \in 4..(n - 1) : out.value.bytes[i - 3] = bytes[i + 1]

C19_Witness ==
  /\ geometryRet.op = "sanitize"
  /\ geometryRet.arg = JsValue("buffer", <<1, 1, 1, 1, 230>>, <<>>)
  /\ geometryRet.out.kind = "GeoJSON"
  /\ geometryRet.out.value = JsValue("buffer", <<230>>, <<>>)

----------------------------------------------------------------------------
(* MySQL ENUM *)

\* the member texts of the modelled enums: b, ', b', the separator ", " and D,E
EnumMembers ==
  {<<"b">>, <<Quote>>, <<"b", Quote>>, <<",", " ">>, <<"D", ",", "E">>}

\* options.values: the members in declared order, without duplicates
EnumValues ==
  {values \in SeqsUpTo(EnumMembers, MaxMembers) :
     /\ Len(values) >= 1
     /\ \A i, j \in 1..Len(values) : i # j => values[i] # values[j]}

\* ENUM.toSql quoting the members without escaping them
EnumToSqlUnescaped(values) ==
  <<"E", "N", "U", "M", "(">>
    \o join([i \in 1..Len(values) |-> <<Quote>> \o values[i] \o <<Quote>>], <<",", " ">>)
    \o <<")">>

\* ENUM.toSql
EnumToSql(values) ==
  <<"E", "N", "U", "M", "(">>
    \o join([i \in 1..Len(values) |-> escapeString(values[i])], <<",", " ">>)
    \o <<")">>

\* DataTypes.ENUM(...values)
EnumNew ==
  \E values \in EnumValues :
    /\ enum' = [class |-> "ENUM", options |-> [values |-> values]]
    /\ enumRet' = [op |-> "new", out |-> <<>>]
    /\ UNCHANGED <<dialectVars, booleanVars, numberVars, dateVars, geometryVars, bindVars, modelVars>>

\* type.toSql({ dialect })
EnumToSqlCall ==
  /\ enum # NoInstance
  /\ enumRet' = [op |-> "toSql", out |-> EnumToSql(enum.options.values)]
  /\ UNCHANGED <<enum, dialectVars, booleanVars, numberVars, dateVars, geometryVars, bindVars, modelVars>>

EnumInit ==
  /\ DialectIdle /\ BooleanIdle /\ TypeIdle

EnumNext == EnumNew \/ EnumToSqlCall

EnumSpec == EnumInit /\ [][EnumNext]_vars

----------------------------------------------------------------------------
(* Claims about MySQL ENUM *)

\* The values a SQL lexer reads from a list of string literals separated by ", "
\* and closed by ")"; a text that is not such a list yields one value too many.
RECURSIVE ReadLiterals(_)
ReadLiterals(t) ==
  IF t = <<>> \/ t[1] # Quote \/ LiteralEnd(t, 2) = 0 THEN <<<<>>, <<>>>>
  ELSE LET rest == SubSeq(t, LiteralEnd(t, 2) + 1, Len(t)) IN
       IF rest = <<")">> THEN <<LiteralValue(t, 2)>>
       ELSE IF Len(rest) > 2 /\ rest[1] = "," /\ rest[2] = " "
       THEN <<LiteralValue(t, 2)>> \o ReadLiterals(SubSeq(rest, 3, Len(rest)))
       ELSE <<LiteralValue(t, 2), <<>>, <<>>>>

\* C20: ENUM.toSql gives ENUM( ... ) holding one string literal per member, in
\* declared order and separated by ", ", each literal being the member escaped
\* by the dialect's escapeString: a SQL lexer reads back exactly the members.
C20_EnumToSql ==
  enumRet.op = "toSql" =>
    LET sql == enumRet.out
        values == enum.options.values
    IN /\ SubSeq(sql, 1, 5) = <<"E", "N", "U", "M", "(">>
       /\ Len(ReadLiterals(SubSeq(sql, 6, Len(sql)))) = Len(values)
       /\ ReadLiterals(SubSeq(sql, 6, Len(sql))) = values
       /\ Len(sql) = 6 + 2 * (Len(values) - 1)
                       + Len(join([i \in 1..Len(values) |-> escapeString(values[i])], <<>>))

C20_Witness ==
  /\ enumRet.op = "toSql"
  /\ enum.options.values = <<<<"b", Quote>>, <<",", " ">>, <<"b">>>>
  /\ enumRet.out = <<"E", "N", "U", "M", "(", Quote, "b", Quote, Quote, Quote, ",", " ",
                     Quote, ",", " ", Quote, ",", " ", Quote, "b", Quote, ")">>

----------------------------------------------------------------------------
(* Claims about MySQL GEOMETRY.sanitize on values that are not buffers *)

\* C27: sanitize returns null, and not the input, for every falsy input (null,
\* undefined, the empty string, 0, false); it hands a non-empty string to the
\* parser whole, no prefix removed; and for every other value that is neither a
\* string nor a Buffer it throws before anything is parsed.
C27_SanitizeNonBuffer ==
  (geometryRet.op = "sanitize" /\ geometryRet.arg.kind # "buffer") =>
    LET value == geometryRet.arg
        out == geometryRet.out
    IN /\ value \in {JsNull, JsValue("undefined", <<>>, <<>>), JsValue("string", <<>>, <<>>),
                     JsValue("number", <<>>, <<"0">>), JsValue("boolean", <<>>, <<"false">>)}
            => (~out.threw /\ out.kind = "null" /\ out.value = JsNull)
       /\ (value.kind = "string" /\ value.chars # <<>>)
            => (~out.threw /\ out.kind = "GeoJSON" /\ out.value = value /\ out.shortCrs)
       /\ value = JsValue("number", <<>>, <<"5">>)
            => (out.threw /\ out.kind = "none" /\ out.error.class = "Error")

C27_Witness ==
  /\ geometryRet.op = "sanitize"
  /\ geometryRet.arg = JsValue("string", <<>>, <<>>)
  /\ geometryRet.out.kind = "null"
  /\ geometryRet.out.value # geometryRet.arg

----------------------------------------------------------------------------
(* BindCollector: what a dialect's createBindCollector hands to a query      *)
(* build.  A positional collector maps names to numbered placeholders and    *)
(* records their order; a named one splices the name and records nothing.    *)
(* Every collector also carries the names collected on it so far.            *)

\* a collector that starts from the order another live collector has recorded
createCollectorShared(style, existing) ==
  LET live == {b \in Builds : existing[b].style = style} IN
  [style |-> style,
   order |-> IF live = {} THEN <<>> ELSE existing[CHOOSE b \in live : TRUE].order,
   calls |-> <<>>]

\* createBindCollector(): a collector that has collected nothing
createCollector(style, existing) == [style |-> style, order |-> <<>>, calls |-> <<>>]

\* collect recording every call, a repeated name included
collectEveryCall(collector, bindParameterName) ==
  [collector |-> [collector EXCEPT !.order = IF collector.style = "positional"
                                              THEN Append(@, bindParameterName) ELSE @,
                                   !.calls = Append(@, bindParameterName)],
   token |-> IF collector.style = "positional"
             THEN [prefix |-> "$", position |-> Len(collector.order) + 1, name |-> ""]
             ELSE [prefix |-> ":", position |-> 0, name |-> bindParameterName]]

\* collect(bindParameterName): the placeholder to splice into the SQL
collect(collector, bindParameterName) ==
  LET seen == {i \in 1..Len(collector.order) : collector.order[i] = bindParameterName}
      called == [collector EXCEPT !.calls = Append(@, bindParameterName)]
  IN IF collector.style = "named"
     THEN [collector |-> called,
           token |-> [prefix |-> ":", position |-> 0, name |-> bindParameterName]]
     ELSE IF seen # {}
     THEN [collector |-> called,
           token |-> [prefix |-> "$", position |-> CHOOSE i \in seen : TRUE, name |-> ""]]
     ELSE [collector |-> [called EXCEPT !.order = Append(@, bindParameterName)],
           token |-> [prefix |-> "$", position |-> Len(collector.order) + 1, name |-> ""]]

\* dialect.createBindCollector() at the start of query build b
CreateBindCollectorCall ==
  \E b \in Builds : \E style \in {"positional", "named"} :
    /\ collectors' = [collectors EXCEPT ![b] = createCollector(style, collectors)]
    /\ bindRet' = [op |-> "createBindCollector", build |-> b,
                   token |-> [prefix |-> "", position |-> 0, name |-> ""],
                   null |-> FALSE, order |-> <<>>]
    /\ UNCHANGED <<dialectVars, booleanVars, numberVars, dateVars, geometryVars, enumVars,
                   modelVars>>

\* collector.collect(name) within query build b
CollectCall ==
  \E b \in Builds : \E bindParameterName \in {"a", "b"} :
    /\ collectors[b] # NoCollector
    /\ Len(collectors[b].calls) < MaxCalls
    /\ collectors' = [collectors EXCEPT ![b] = collect(@, bindParameterName).collector]
    /\ bindRet' = [op |-> "collect", build |-> b,
                   token |-> collect(collectors[b], bindParameterName).token,
                   null |-> FALSE, order |-> <<>>]
    /\ UNCHANGED <<dialectVars, booleanVars, numberVars, dateVars, geometryVars, enumVars,
                   modelVars>>

\* collector.getBindParameterOrder() within query build b: the recorded names, or
\* null when the dialect binds by name
GetBindParameterOrderCall ==
  \E b \in Builds :
    /\ collectors[b] # NoCollector
    /\ bindRet' = [op |-> "getBindParameterOrder", build |-> b,
                   token |-> [prefix |-> "", position |-> 0, name |-> ""],
                   null |-> collectors[b].style = "named",
                   order |-> IF collectors[b].style = "named" THEN <<>>
                             ELSE collectors[b].order]
    /\ UNCHANGED <<collectors, dialectVars, booleanVars, numberVars, dateVars, geometryVars,
                   enumVars, modelVars>>

BindNext == CreateBindCollectorCall \/ CollectCall \/ GetBindParameterOrderCall

BindSpec == EscapeInit /\ [][BindNext]_vars

----------------------------------------------------------------------------
(* Claims about the BindCollector *)

\* the names of a sequence of collect calls, each kept where it first occurs
RECURSIVE FirstSeen(_)
FirstSeen(calls) ==
  IF calls = <<>> THEN <<>>
  ELSE LET earlier == FirstSeen(SubSeq(calls, 1, Len(calls) - 1))
           last == calls[Len(calls)]
       IN IF \E i \in 1..Len(earlier) : earlier[i] = last THEN earlier
          ELSE Append(earlier, last)

\* C21: on a positional collector getBindParameterOrder returns, after any
\* sequence of collect calls, the collected names in the order they were first
\* seen; on a named collector it returns null after any sequence of calls.
C21_BindParameterOrder ==
  bindRet.op = "getBindParameterOrder" =>
    IF collectors[bindRet.build].style = "positional"
    THEN ~bindRet.null /\ bindRet.order = FirstSeen(collectors[bindRet.build].calls)
    ELSE bindRet.null

C21_Witness ==
  /\ bindRet.op = "getBindParameterOrder"
  /\ collectors[bindRet.build].calls = <<"b", "a", "b">>
  /\ bindRet.order = <<"b", "a">>

\* the collector and the last token of a query build that makes the collect
\* calls of `calls` on its own collector with no other build under way
RECURSIVE RunAlone(_, _)
RunAlone(style, calls) ==
  IF calls = <<>> THEN [collector |-> createCollector(style, [b \in Builds |-> NoCollector]),
                        token |-> [prefix |-> "", position |-> 0, name |-> ""]]
  ELSE collect(RunAlone(style, SubSeq(calls, 1, Len(calls) - 1)).collector, calls[Len(calls)])

\* C22: a collector just created has collected nothing, and however the collect
\* calls of the two query builds interleave, each build's collector and each
\* token it is given are those the build gets when it runs alone.
C22_NoLeak ==
  /\ \A b \in Builds :
       collectors[b] # NoCollector =>
         collectors[b] = RunAlone(collectors[b].style, collectors[b].calls).collector
  /\ bindRet.op = "collect" =>
       bindRet.token =
         RunAlone(collectors[bindRet.build].style, collectors[bindRet.build].calls).token
  /\ bindRet.op = "createBindCollector" => collectors[bindRet.build].order = <<>>

C22_Witness ==
  /\ bindRet.op = "collect"
  /\ bindRet.build = "q2"
  /\ collectors["q1"].style = "positional"
  /\ collectors["q2"].style = "positional"
  /\ collectors["q1"].order = <<"a", "b">>
  /\ collectors["q2"].order = <<"b", "a">>
  /\ bindRet.token.position = 2

----------------------------------------------------------------------------
(* Model definition: a DataType used as an attribute type is checked against  *)
(* the dialect's capability matrix when the model is defined; the table is     *)
(* created in the database later, when the model is synced.                    *)

\* a check that lets every DataType through
supportsEveryDataType(d, dataType) == TRUE

\* the native-type flag of the DataType in the capability matrix of dialect d
supportsDataType(d, dataType) == matrices[supportsGetter(d)][dataType]

\* sequelize.define(modelName, { attr: dataType }) on dialect d: throws
\* `${dialect.name} does not support the ${dataType} DataType.` when the matrix
\* declares the DataType unsupported, and registers the model otherwise
define(d, dataType) ==
  /\ Len(models) < MaxModels
  /\ IF supportsDataType(d, dataType)
     THEN /\ models' = Append(models, [inst |-> d, attr |-> dataType, synced |-> FALSE])
          /\ defineRet' = [op |-> "define", inst |-> d, dataType |-> dataType,
                           threw |-> FALSE, error |-> NoError]
     ELSE /\ defineRet' = [op |-> "define", inst |-> d, dataType |-> dataType,
                           threw |-> TRUE,
                           error |-> [class |-> "Error",
                                      message |-> <<name(d), " does not support the ",
                                                    dataType, " DataType.">>]]
          /\ UNCHANGED models
  /\ UNCHANGED <<dialectVars, booleanVars, numberVars, dateVars, geometryVars, enumVars,
                 bindVars>>

\* Model.sync(): CREATE TABLE is executed; the database rejects a column type it
\* does not have
sync(i) ==
  /\ ~models[i].synced
  /\ IF matrices[supportsGetter(models[i].inst)][models[i].attr]
     THEN /\ models' = [models EXCEPT ![i].synced = TRUE]
          /\ defineRet' = [op |-> "sync", inst |-> models[i].inst,
                           dataType |-> models[i].attr, threw |-> FALSE, error |-> NoError]
     ELSE /\ defineRet' = [op |-> "sync", inst |-> models[i].inst,
                           dataType |-> models[i].attr, threw |-> TRUE,
                           error |-> [class |-> "DatabaseError", message |-> <<>>]]
          /\ UNCHANGED models
  /\ UNCHANGED <<dialectVars, booleanVars, numberVars, dateVars, geometryVars, enumVars,
                 bindVars>>

DefineNext ==
  \/ \E d \in Instances : \E dataType \in {"JSON", "GEOMETRY", "HSTORE", "TSVECTOR"} :
       define(d, dataType)
  \/ \E i \in 1..Len(models) : sync(i)

DefineSpec == Init /\ [][DefineNext]_vars

----------------------------------------------------------------------------
(* Claims about model definition *)

\* the capability matrix of dialect d declares the DataType unsupported
DeclaredUnsupported(d, dataType) == ~matrices[supportsGetter(d)][dataType]

====
